---------------------------- MODULE Spec2Model ----------------------------
(***************************************************************************)
(* A model of src/src/App.tsx (photo-plotter): the zustand store with its  *)
(* bodies, the per-body React components (BodyInstance: elapsed time and   *)
(* trail; TerrainMesh: asynchronous image load, terrain state, memoized    *)
(* sphere geometry), and the pure functions they call.                     *)
(*                                                                         *)
(* Numbers.  JavaScript numbers are modelled as exact rationals <<n, d>>   *)
(* in lowest terms with d > 0 (operators R, RAdd, ...).  Float rounding    *)
(* (including the Float32Array the heights are stored in) is not modelled. *)
(*                                                                         *)
(* React.  A store change re-renders Scene (it subscribes to the whole     *)
(* store), hence every BodyInstance and TerrainMesh.  Each action below    *)
(* therefore includes that re-render: mounting and unmounting components,  *)
(* running the load effect's cleanup and body when its dependencies        *)
(* changed, and re-evaluating useMemo.  The render, the effect cleanup and *)
(* the effect body are taken as one atomic step with the store change.     *)
(***************************************************************************)
EXTENDS Integers, Sequences, FiniteSets, TLC

VARIABLES
  \* ---- the store (AppState) ----
  bodies,         \* Body[]: a sequence of body records
  activeBodyId,   \* string | null
  imageUrl,       \* the global imageUrl, string | null
  heightScale, heightMode, wireframe, shading, seaLevel,
  showContours, contourSteps, showSea,   \* the global display fields
  aspectY,        \* terrain height / width, a rational
  heightmap,      \* { data, width, height }
  \* ---- one BodyInstance / TerrainMesh per mounted body id ----
  tRef,           \* tRef.current, the elapsed-time accumulator
  trailPoints,    \* the trail, a sequence of positions
  terrain,        \* TerrainMesh's terrain state
  memo,           \* useMemo cell of sphereGeometry: deps, value, identity
  pending,        \* image decodes in flight (promises not yet settled)
  \* ---- history variables (not program state) ----
  orbitTicks,     \* per body: the positions computed since mount, in order
  constLen,       \* per body: its trailLength if unchanged since mount, else 0
  lastLoad,       \* how the last settled decode ended: applied, discarded, failed
  viaUI,          \* every store call so far is one the UI's controls allow
  \* ---- arguments and result of the pure function under test ----
  fnArgs, fnOut,
  \* ---- the heightmap exports ----
  downloads,      \* the files saved by a.click(), in order
  exportReturn,   \* what the last call of an export function returned
  exportCalls,    \* the number of export calls so far (a history variable)
  \* ---- the scene fields of the store, and localStorage ----
  viewPreset, sunAzimuth, sunElevation,
  presets         \* the list kept under 'pp_presets'

storeVars   == <<bodies, activeBodyId, imageUrl, heightScale, heightMode, wireframe,
                 shading, seaLevel, showContours, contourSteps, showSea>>
loadedVars  == <<aspectY, heightmap>>
compVars    == <<tRef, trailPoints, terrain, memo, pending>>
histVars    == <<orbitTicks, constLen, lastLoad, viaUI>>
fnVars      == <<fnArgs, fnOut>>
ioVars      == <<downloads, exportReturn, exportCalls>>
presetVars  == <<viewPreset, sunAzimuth, sunElevation, presets>>
vars        == <<storeVars, loadedVars, compVars, histVars, fnVars, ioVars, presetVars>>

(***************************************************************************)
(* Bounds of the model.                                                    *)
(***************************************************************************)
MaxBodies == 2      \* addBody is explored up to this many bodies
MaxTime   == 5      \* frames are explored until a tRef reaches this
MaxTrail  == 3      \* the trail lengths patched in are 1 and MaxTrail (the slider has 10..5000)
MaxPixels == 4      \* computeHeightMap is explored on images of up to this many pixels
MaxStale  == 1      \* no effect is re-run while more than this many cancelled decodes
                    \* would be in flight
MaxFrames == 1      \* SpecGeom explores this many frames
MaxTDen   == 20     \* palettes are explored at t in steps of 1/MaxTDen
MaxHDen   == 12     \* vertex heights are explored in steps of 1/MaxHDen
MaxSmallDim == 12   \* height fields of 1..MaxSmallDim pixels a side are explored, with
                    \* sizes around MAX_SPHERE_SEGMENTS and MAX_IMAGE_DIMENSION
MaxGeoDen == 100    \* heights and sea levels of the geographic palette are k / MaxGeoDen
MaxPresets == 3      \* localStorage holds up to this many presets
MaxExports == 2     \* this many heightmap exports are explored
MaxEdits  == 2      \* SpecDisplay keeps at most this many fields away from their defaults
MaxK      == 3      \* the orbit parameter k is explored up to MaxK

NULL == "null"      \* JavaScript null, where the other values are strings

(***************************************************************************)
(* Exact rational arithmetic.                                              *)
(***************************************************************************)
Abs(n) == IF n < 0 THEN -n ELSE n
Min(a, b) == IF a <= b THEN a ELSE b
Max(a, b) == IF a >= b THEN a ELSE b

RECURSIVE GCD(_, _)
GCD(a, b) == IF b = 0 THEN a ELSE GCD(b, a % b)

R(n, d) ==
  LET g == GCD(Abs(n), Abs(d))
      s == IF d < 0 THEN -1 ELSE 1
  IN  <<(s * n) \div g, (s * d) \div g>>
RInt(n) == <<n, 1>>
RAdd(p, q) ==
  LET g == GCD(p[2], q[2])
      l == (p[2] \div g) * q[2]
  IN  R(p[1] * (l \div p[2]) + q[1] * (l \div q[2]), l)
RNeg(p) == <<-p[1], p[2]>>
RSub(p, q) == RAdd(p, RNeg(q))
RMul(p, q) ==
  LET a == R(p[1], q[2])
      b == R(q[1], p[2])
  IN  R(a[1] * b[1], a[2] * b[2])
RDiv(p, q) == RMul(p, R(q[2], q[1]))
RLt(p, q) == p[1] * q[2] < q[1] * p[2]
RLe(p, q) == p[1] * q[2] <= q[1] * p[2]
RMax(p, q) == IF RLt(p, q) THEN q ELSE p
RMin(p, q) == IF RLt(q, p) THEN q ELSE p

(***************************************************************************)
(* computeHeightMap (App.tsx 310-353).  data is the flat RGBA array of the *)
(* image, 4 entries per pixel; TLA+ sequences start at 1, so data[idx] of  *)
(* the code is data[idx + 1] here.                                         *)
(***************************************************************************)
HeightMappingModes ==
  {"luminance", "grayscaleLum", "red", "green", "blue", "maxRGB", "minRGB"}

Luminance709(r, g, b) == R(2126 * r + 7152 * g + 722 * b, 10000)

PixelValueMinAsMax(mode, r, g, b) ==
  CASE mode \in {"grayscaleLum", "luminance"} -> Luminance709(r, g, b)
    [] mode = "red"    -> RInt(r)
    [] mode = "green"  -> RInt(g)
    [] mode = "blue"   -> RInt(b)
    [] mode = "maxRGB" -> RInt(Max(r, Max(g, b)))
    [] mode = "minRGB" -> RInt(Max(r, Max(g, b)))
    [] OTHER           -> Luminance709(r, g, b)

\* the switch on mode, lines 324-347
PixelValue(mode, r, g, b) ==
  CASE mode \in {"grayscaleLum", "luminance"} -> Luminance709(r, g, b)
    [] mode = "red"    -> RInt(r)
    [] mode = "green"  -> RInt(g)
    [] mode = "blue"   -> RInt(b)
    [] mode = "maxRGB" -> RInt(Max(r, Max(g, b)))
    [] mode = "minRGB" -> RInt(Min(r, Min(g, b)))
    [] OTHER           -> Luminance709(r, g, b)

computeHeightMap(width, height, data, mode) ==
  [k \in 1..(width * height) |->
     LET y   == (k - 1) \div width
         x   == (k - 1) % width
         idx == (y * width + x) * 4
     IN  RDiv(PixelValue(mode, data[idx + 1], data[idx + 2], data[idx + 3]), RInt(255))]

(***************************************************************************)
(* The palette engine of TerrainMesh (App.tsx 409-544).  A colour is a     *)
(* triple of rationals.  The decimal literals of the source are written    *)
(* in 1/100000 (Col) and 1/100 (T).                                        *)
(***************************************************************************)
Col(r, g, b) == <<R(r, 100000), R(g, 100000), R(b, 100000)>>
T(n) == R(n, 100)

\* (a variant whose bands include their upper threshold)
getGeographicColorInclusive(sea, height01) ==
  LET h == height01
  IN  IF RLe(h, RMax(RInt(0), RSub(sea, T(15)))) THEN Col(2000, 8000, 30000)
      ELSE IF RLe(h, sea)                        THEN Col(5000, 25000, 60000)
      ELSE IF RLe(h, RAdd(sea, T(2)))            THEN Col(90000, 85000, 60000)
      ELSE IF RLe(h, RAdd(sea, T(20)))           THEN Col(30000, 60000, 20000)
      ELSE IF RLe(h, RAdd(sea, T(35)))           THEN Col(15000, 45000, 15000)
      ELSE IF RLe(h, RAdd(sea, T(55)))           THEN Col(40000, 35000, 30000)
      ELSE IF RLe(h, RAdd(sea, T(75)))           THEN Col(60000, 60000, 60000)
      ELSE                                            Col(95000, 97000, 100000)

getGeographicColor(sea, height01) ==
  LET h            == height01
      deepWater    == RMax(RInt(0), RSub(sea, T(15)))
      shallowWater == sea
      beach        == RAdd(sea, T(2))
      grass        == RAdd(sea, T(20))
      forest       == RAdd(sea, T(35))
      rock         == RAdd(sea, T(55))
      snow         == RAdd(sea, T(75))
  IN  IF RLt(h, deepWater)         THEN Col(2000, 8000, 30000)
      ELSE IF RLt(h, shallowWater) THEN Col(5000, 25000, 60000)
      ELSE IF RLt(h, beach)        THEN Col(90000, 85000, 60000)
      ELSE IF RLt(h, grass)        THEN Col(30000, 60000, 20000)
      ELSE IF RLt(h, forest)       THEN Col(15000, 45000, 15000)
      ELSE IF RLt(h, rock)         THEN Col(40000, 35000, 30000)
      ELSE IF RLt(h, snow)         THEN Col(60000, 60000, 60000)
      ELSE                              Col(95000, 97000, 100000)

clamp01(v) == RMin(RInt(1), RMax(RInt(0), v))
lerp(a, b, t) == RAdd(a, RMul(RSub(b, a), t))
lerp3(c0, c1, t) == <<lerp(c0[1], c1[1], t), lerp(c0[2], c1[2], t), lerp(c0[3], c1[3], t)>>

\* the loop of gradient from index i on (i counts from 1)
RECURSIVE gradientFrom(_, _, _)
gradientFrom(stops, u, i) ==
  IF i > Len(stops) - 1 THEN stops[Len(stops)][2]
  ELSE LET t0 == stops[i][1]
           c0 == stops[i][2]
           t1 == stops[i + 1][1]
           c1 == stops[i + 1][2]
       IN  IF RLe(t0, u) /\ RLe(u, t1)
           THEN lerp3(c0, c1, RDiv(RSub(u, t0), RSub(t1, t0)))
           ELSE gradientFrom(stops, u, i + 1)

gradientNoClamp(stops, t) == gradientFrom(stops, t, 1)

gradient(stops, t) == gradientFrom(stops, clamp01(t), 1)

\* the stop tables written inline in getPaletteColor, lines 453-540
PaletteStops ==
  [ viridis  |-> << <<T(0),  Col(26700, 400, 32900)>>,  <<T(25),  Col(28300, 14100, 45800)>>,
                    <<T(50), Col(25400, 26500, 53000)>>, <<T(75), Col(20700, 37200, 55300)>>,
                    <<T(100), Col(99300, 90600, 14400)>> >>,
    inferno  |-> << <<T(0),  Col(100, 100, 1200)>>,     <<T(25),  Col(12800, 4700, 47700)>>,
                    <<T(50), Col(52100, 9000, 47800)>>,  <<T(75), Col(89200, 25200, 20800)>>,
                    <<T(100), Col(98800, 99800, 64500)>> >>,
    magma    |-> << <<T(0),  Col(100, 0, 1500)>>,       <<T(25),  Col(21200, 7100, 34800)>>,
                    <<T(50), Col(46600, 10700, 50600)>>, <<T(75), Col(74900, 24900, 50700)>>,
                    <<T(100), Col(98700, 99100, 74900)>> >>,
    plasma   |-> << <<T(0),  Col(5000, 3000, 53000)>>,  <<T(25),  Col(47000, 6000, 64000)>>,
                    <<T(50), Col(82000, 19000, 48000)>>, <<T(75), Col(98000, 43000, 27000)>>,
                    <<T(100), Col(94000, 98000, 14000)>> >>,
    turbo    |-> << <<T(0),  Col(18995, 7176, 23217)>>, <<T(25),  Col(20803, 71800, 47260)>>,
                    <<T(50), Col(43044, 79101, 45010)>>, <<T(75), Col(78020, 51020, 10190)>>,
                    <<T(100), Col(98826, 99836, 64459)>> >>,
    coolwarm |-> << <<T(0),  Col(23000, 29900, 75400)>>, <<T(50), Col(86500, 86500, 86500)>>,
                    <<T(100), Col(70600, 1600, 15000)>> >>,
    rainbow  |-> << <<T(0),  Col(0, 0, 100000)>>,       <<T(20),  Col(0, 50000, 100000)>>,
                    <<T(40), Col(0, 100000, 0)>>,        <<T(60), Col(100000, 100000, 0)>>,
                    <<T(80), Col(100000, 50000, 0)>>,    <<T(100), Col(100000, 0, 0)>> >>,
    ocean    |-> << <<T(0),  Col(0, 2000, 15000)>>,     <<T(50),  Col(0, 20000, 50000)>>,
                    <<T(100), Col(0, 70000, 90000)>> >>,
    desert   |-> << <<T(0),  Col(25000, 17000, 10000)>>, <<T(40), Col(70000, 50000, 20000)>>,
                    <<T(80), Col(90000, 75000, 45000)>>, <<T(100), Col(100000, 95000, 80000)>> >>,
    forest   |-> << <<T(0),  Col(5000, 15000, 5000)>>,  <<T(50),  Col(10000, 35000, 10000)>>,
                    <<T(100), Col(60000, 90000, 40000)>> >>,
    terrain  |-> << <<T(0),  Col(20000, 30000, 0)>>,    <<T(30),  Col(20000, 55000, 15000)>>,
                    <<T(60), Col(55000, 40000, 20000)>>, <<T(85), Col(65000, 65000, 65000)>>,
                    <<T(100), Col(100000, 100000, 100000)>> >>,
    ice      |-> << <<T(0),  Col(0, 10000, 20000)>>,    <<T(50),  Col(50000, 80000, 95000)>>,
                    <<T(100), Col(100000, 100000, 100000)>> >> ]

GradientModes == DOMAIN PaletteStops
ShadingModes  == GradientModes \cup {"image", "geographic", "grayscale"}

getPaletteColor(mode, h, sea) ==
  LET t == clamp01(h)
  IN  IF mode = "grayscale" THEN <<t, t, t>>
      ELSE IF mode \in GradientModes THEN gradient(PaletteStops[mode], t)
      ELSE getGeographicColor(sea, t)

(***************************************************************************)
(* IEEE-754 arithmetic, for the places where the exact value of a result   *)
(* matters.  A number is a sign and a magnitude m * 2^-GridFrac, m written *)
(* in limbs of LimbBits bits, the least significant first; the last limb   *)
(* is the integer part.  Every double of magnitude in [2^-19, 4) is on     *)
(* this grid, and so are the sums and differences of two of them.          *)
(* Rounding is to nearest, ties to even.                                   *)
(***************************************************************************)
LimbBits == 12 + 12
GridFrac == 3 * LimbBits
Limbs    == 1..4

RECURSIVE Pow2(_)
Pow2(k) == IF k = 0 THEN 1 ELSE 2 * Pow2(k - 1)
Base == Pow2(LimbBits)
HalfBase == Pow2(12)

DZero == [neg |-> FALSE, mag |-> <<0, 0, 0, 0>>]

\* the remainder of the expansion of n/d after j places of 12 bits, and the
\* j-th place
RECURSIVE FracRem(_, _, _)
FracRem(n, d, j) == IF j = 0 THEN n % d ELSE (HalfBase * FracRem(n, d, j - 1)) % d
FracDigit(n, d, j) == (HalfBase * FracRem(n, d, j - 1)) \div d

\* n/d (0 <= n/d < 4) cut off at the grid
Truncated(n, d) ==
  [neg |-> FALSE,
   mag |-> <<HalfBase * FracDigit(n, d, 5) + FracDigit(n, d, 6),
             HalfBase * FracDigit(n, d, 3) + FracDigit(n, d, 4),
             HalfBase * FracDigit(n, d, 1) + FracDigit(n, d, 2),
             n \div d>>]

\* bit i of a magnitude has the weight 2^(i - 1 - GridFrac)
Bit(mag, i) == (mag[((i - 1) \div LimbBits) + 1] \div Pow2((i - 1) % LimbBits)) % 2

RECURSIVE BitLen(_)
BitLen(v) == IF v = 0 THEN 0 ELSE 1 + BitLen(v \div 2)
\* the index of the highest bit set, 0 if there is none
MSB(mag) ==
  IF \A k \in Limbs : mag[k] = 0 THEN 0
  ELSE LET k == CHOOSE k \in Limbs : mag[k] # 0 /\ \A j \in Limbs : j > k => mag[j] = 0
       IN  LimbBits * (k - 1) + BitLen(mag[k])

AddMag(x, y) ==
  LET s1 == x[1] + y[1]
      s2 == x[2] + y[2] + (s1 \div Base)
      s3 == x[3] + y[3] + (s2 \div Base)
      s4 == x[4] + y[4] + (s3 \div Base)
  IN  <<s1 % Base, s2 % Base, s3 % Base, s4 % Base>>

\* x - y for x >= y
SubMag(x, y) ==
  LET d1 == x[1] - y[1]
      d2 == x[2] - y[2] - (IF d1 < 0 THEN 1 ELSE 0)
      d3 == x[3] - y[3] - (IF d2 < 0 THEN 1 ELSE 0)
      d4 == x[4] - y[4] - (IF d3 < 0 THEN 1 ELSE 0)
  IN  <<d1 % Base, d2 % Base, d3 % Base, d4 % Base>>

LtMag(x, y) ==
  \E k \in Limbs : x[k] < y[k] /\ \A j \in Limbs : j > k => x[j] = y[j]

\* the exact sum of two numbers of the grid
ExactSum(a, b) ==
  IF a.neg = b.neg THEN [neg |-> a.neg, mag |-> AddMag(a.mag, b.mag)]
  ELSE IF a.mag = b.mag THEN DZero
  ELSE IF LtMag(a.mag, b.mag) THEN [neg |-> b.neg, mag |-> SubMag(b.mag, a.mag)]
  ELSE [neg |-> a.neg, mag |-> SubMag(a.mag, b.mag)]

\* a magnitude without its bits 1..d, and the magnitude that is bit i alone
DropLimb(v, d) == IF d >= LimbBits THEN 0 ELSE IF d <= 0 THEN v ELSE v - (v % Pow2(d))
DropLow(mag, d) ==
  <<DropLimb(mag[1], d), DropLimb(mag[2], d - LimbBits),
    DropLimb(mag[3], d - 2 * LimbBits), DropLimb(mag[4], d - 3 * LimbBits)>>
OneLimb(i) == IF i \in 1..LimbBits THEN Pow2(i - 1) ELSE 0
OneAt(i) ==
  <<OneLimb(i), OneLimb(i - LimbBits), OneLimb(i - 2 * LimbBits), OneLimb(i - 3 * LimbBits)>>

\* x, followed by more nonzero digits below the grid if sticky, rounded to p
\* significant bits
RoundTo(x, sticky, p) ==
  LET d == MSB(x.mag) - p     \* the bits 1..d of the grid are dropped
  IN  IF d <= 0 THEN x
      ELSE LET trunc == DropLow(x.mag, d)
               low   == sticky \/ DropLow(x.mag, d - 1) # x.mag
               up    == Bit(x.mag, d) = 1 /\ (low \/ Bit(x.mag, d + 1) = 1)
           IN  [neg |-> x.neg,
                mag |-> IF up THEN AddMag(trunc, OneAt(d + 1)) ELSE trunc]

\* the double a decimal literal n/d denotes, and the float32 a double is stored as
Double(n, d)  == RoundTo(Truncated(n, d), FracRem(n, d, 6) # 0, 53)
Float32(x)    == RoundTo(x, FALSE, 24)

DNeg(x)    == IF x = DZero THEN x ELSE [x EXCEPT !.neg = ~x.neg]
DAdd(a, b) == RoundTo(ExactSum(a, b), FALSE, 53)
DSub(a, b) == DAdd(a, DNeg(b))
\* x * f for a factor f that is 0 or 1
DMulUnit(x, f) == IF f = <<1, 1>> THEN x ELSE DZero

\* lerp and lerp3 (lines 431-434) in doubles, for t = 0 and t = 1
lerpD(a, b, t) == DAdd(a, DMulUnit(DSub(b, a), t))
lerp3D(c0, c1, t) == <<lerpD(c0[1], c1[1], t), lerpD(c0[2], c1[2], t), lerpD(c0[3], c1[3], t)>>

\* the doubles of a colour of the stop tables
ColD(c) == [j \in 1..3 |-> Double(c[j][1], c[j][2])]

\* gradient (lines 435-446) in doubles at u = 0 and u = 1, where the factor
\* f = (u - t0) / (t1 - t0) of the segment found is 0 / (t1 - t0) = 0 or
\* (t1 - t0) / (t1 - t0) = 1
RECURSIVE gradientDFrom(_, _, _)
gradientDFrom(stops, u, i) ==
  IF i > Len(stops) - 1 THEN ColD(stops[Len(stops)][2])
  ELSE LET t0 == stops[i][1]
           t1 == stops[i + 1][1]
       IN  IF RLe(t0, u) /\ RLe(u, t1)
           THEN lerp3D(ColD(stops[i][2]), ColD(stops[i + 1][2]),
                       RDiv(RSub(u, t0), RSub(t1, t0)))
           ELSE gradientDFrom(stops, u, i + 1)

gradientD(stops, t) == gradientDFrom(stops, clamp01(t), 1)

(***************************************************************************)
(* Image files and readImageData (App.tsx 274-308).  ImageFiles are the    *)
(* files the model's user has: a URL that is not one of them (a corrupt    *)
(* file, or the '' that a body without any image is given) makes the       *)
(* decode fail (image.onerror, line 305).  All of them are within          *)
(* MAX_IMAGE_DIMENSION, so the canvas has the source's size and pixels.    *)
(***************************************************************************)
ImageFiles ==
  [ a |-> [width |-> 1, height |-> 1, data |-> <<200, 30, 10, 255>>],
    b |-> [width |-> 2, height |-> 1, data |-> <<0, 0, 0, 255, 255, 255, 255, 255>>] ]
BadUrl == "bad"
Urls   == DOMAIN ImageFiles \cup {BadUrl}

Decodes(url) == url \in DOMAIN ImageFiles
MAX_IMAGE_DIMENSION == 1024

\* Math.round of the quotient n / d of two positive integers
RoundDiv(n, d) == (2 * n + d) \div (2 * d)

\* the target size of lines 281-293
TargetSize(srcW, srcH) ==
  IF srcW > MAX_IMAGE_DIMENSION \/ srcH > MAX_IMAGE_DIMENSION
  THEN IF srcW >= srcH
       THEN [dstW |-> MAX_IMAGE_DIMENSION, dstH |-> RoundDiv(srcH * MAX_IMAGE_DIMENSION, srcW)]
       ELSE [dstW |-> RoundDiv(srcW * MAX_IMAGE_DIMENSION, srcH), dstH |-> MAX_IMAGE_DIMENSION]
  ELSE [dstW |-> srcW, dstH |-> srcH]

\* (the files of the model are not scaled, so the canvas holds their pixels)
readImageData(url) ==
  LET size == TargetSize(ImageFiles[url].width, ImageFiles[url].height)
  IN  [width |-> size.dstW, height |-> size.dstH,
       data |-> ImageFiles[url].data, canvas |-> url]

(***************************************************************************)
(* TerrainMesh (App.tsx 355-616): terrain state and sphereGeometry.        *)
(* A Float32Array is a record of its identity hid (Object.is compares      *)
(* identities) and its values; hid 0 is null.  THREE.SphereGeometry is a   *)
(* library: the mesh is kept as its segment counts and, for every pixel    *)
(* of the height field, the radius and colour of a vertex sampling it.     *)
(***************************************************************************)
NoHeights    == [hid |-> 0, vals |-> <<>>]
EmptyTerrain == [texture |-> NULL, heights |-> NoHeights, width |-> 0, height |-> 0]

MAX_SPHERE_SEGMENTS == 256

segWNoClamp(width) == width - 1

\* the segment counts, lines 553-554
segW(width)  == Min(Max(8, width - 1), MAX_SPHERE_SEGMENTS)
segH(height) == Min(Max(6, height - 1), MAX_SPHERE_SEGMENTS)

VertexNoCentre(h, dispScale, sea, shade, contours, steps) ==
  [radius |-> RAdd(RInt(1), RMul(RMul(h, RInt(2)), dispScale)),
   color  |-> getPaletteColor(shade, h, sea)]

\* one turn of the loop over the vertices, lines 565-581, for the height h it samples
\* (a variant without contour bands)
VertexNoBands(h, dispScale, sea, shade, contours, steps) ==
  [radius |-> RAdd(RInt(1), RMul(RMul(RSub(h, R(1, 2)), RInt(2)), dispScale)),
   color  |-> getPaletteColor(shade, h, sea)]

Vertex(h, dispScale, sea, shade, contours, steps) ==
  LET radius == RAdd(RInt(1), RMul(RMul(RSub(h, R(1, 2)), RInt(2)), dispScale))
      c0     == getPaletteColor(shade, h, sea)
      hs     == RMul(h, RInt(steps))
      band   == (hs[1] \div hs[2]) % 2
      f      == IF contours /\ band # 0 THEN T(88) ELSE RInt(1)
  IN  [radius |-> radius,
       color  |-> IF contours THEN <<RMul(c0[1], f), RMul(c0[2], f), RMul(c0[3], f)>> ELSE c0]

sphereGeometry(ter, dispScale, sea, shade, contours, steps) ==
  IF ter.heights.hid = 0 \/ ter.width = 0 \/ ter.height = 0
  THEN [segW |-> 16, segH |-> 12, vertices |-> <<>>]
  ELSE [segW |-> segW(ter.width),
        segH |-> segH(ter.height),
        vertices |-> [k \in 1..(ter.width * ter.height) |->
                        Vertex(ter.heights.vals[k], dispScale, sea, shade, contours, steps)]]

\* the dependency array of useMemo, line 587, without seaLevel
MemoKeyNoSea(ter, props) ==
  <<ter.heights.hid, ter.width, ter.height, props.heightScale,
    props.shading, props.showContours, props.contourSteps>>

\* the dependency array of useMemo, line 587
MemoKey(ter, props) ==
  <<ter.heights.hid, ter.width, ter.height, props.heightScale, props.seaLevel,
    props.shading, props.showContours, props.contourSteps>>

NoCell == [deps |-> <<>>, gen |-> 1]

\* React's useMemo: the factory runs on mount and when a dependency differs
useMemo(mounted, cell, ter, props) ==
  IF mounted /\ cell.deps = MemoKey(ter, props) THEN cell
  ELSE [deps |-> MemoKey(ter, props),
        geom |-> sphereGeometry(ter, props.heightScale, props.seaLevel, props.shading,
                                props.showContours, props.contourSteps),
        gen  |-> IF mounted THEN 1 - cell.gen ELSE 0]

(***************************************************************************)
(* Bodies (App.tsx 46-72, 127-156).  The record keeps the fields the       *)
(* operations modelled here read or write; name, the orbit curve's         *)
(* parameters and the trail's styling are left out.                        *)
(***************************************************************************)
createDefaultBody(id, base) ==
  LET d == [id |-> id, isCentral |-> FALSE, imageUrl |-> NULL, radius |-> RInt(1),
            heightScale |-> 3, heightMode |-> "luminance", wireframe |-> FALSE,
            shading |-> "geographic", seaLevel |-> R(1, 2), showContours |-> FALSE,
            contourSteps |-> 24, showSea |-> TRUE, orbitEnabled |-> FALSE,
            orbitType |-> "circle", trailLength |-> 100]
  IN  [f \in DOMAIN d |-> IF f \in DOMAIN base THEN base[f] ELSE d[f]]

Ids(bs) == {bs[i].id : i \in 1..Len(bs)}
BodyOf(bs, id) == bs[CHOOSE i \in 1..Len(bs) : bs[i].id = id]
Filter(bs, id) == SelectSeq(bs, LAMBDA b : b.id # id)
Patch(b, patch) == [f \in DOMAIN b |-> IF f \in DOMAIN patch THEN patch[f] ELSE b[f]]

\* the props BodyInstance passes to TerrainMesh, lines 1016-1026
UrlProp(b, gUrl) == IF b.imageUrl # NULL THEN b.imageUrl ELSE IF gUrl # NULL THEN gUrl ELSE ""

TerrainProps(b, gUrl) ==
  [imageUrl     |-> UrlProp(b, gUrl),
   heightScale  |-> R(b.heightScale * b.radius[1], 50 * b.radius[2]),
   heightMode   |-> b.heightMode,
   wireframe    |-> b.wireframe,
   shading      |-> b.shading,
   seaLevel     |-> b.seaLevel,
   showContours |-> b.showContours,
   contourSteps |-> b.contourSteps]

\* the position is kept as the application of computeOrbitPosition to its arguments
computeOrbitPosition(t, b) == [t |-> t, orbitType |-> b.orbitType]

(***************************************************************************)
(* computeOrbitPosition in full (App.tsx 846-900).  A time or an angle is  *)
(* a pair <<q, c>> of rationals that stands for the real q + c * 2 pi, so  *)
(* that a period 2 pi / w is the pair <<0, 1 / w>>.  Math.sin and Math.cos *)
(* are kept as terms over their argument, of which only the whole turns    *)
(* are dropped: sin and cos have the period 2 pi.  The coordinates are     *)
(* terms over these, with the arithmetic on plain numbers carried out.     *)
(***************************************************************************)
AScale(r, x) == <<RMul(r, x[1]), RMul(r, x[2])>>
AShift(x, r) == <<RAdd(x[1], r), x[2]>>
AddTime(x, y) == <<RAdd(x[1], y[1]), RAdd(x[2], y[2])>>
DropTurns(c) == R(c[1] % c[2], c[2])
MathSin(x) == [fn |-> "sin", rad |-> x[1], turns |-> DropTurns(x[2])]
MathCos(x) == [fn |-> "cos", rad |-> x[1], turns |-> DropTurns(x[2])]
MathSqrt2 == [fn |-> "sqrt", of |-> RInt(2)]
Mul(a, b) == [op |-> "*", l |-> a, r |-> b]
Div(a, b) == [op |-> "/", l |-> a, r |-> b]
Add(a, b) == [op |-> "+", l |-> a, r |-> b]
Sub(a, b) == [op |-> "-", l |-> a, r |-> b]
Neg(a)    == [op |-> "-", r |-> a]

OrbitTypes ==
  {"circle", "ellipse", "inclinedEllipse", "lissajous", "rose", "lemniscate", "trefoil",
   "figure8Knot", "epicycloid"}

\* the switch of computeOrbitPosition, k being the value read from b.k
OrbitSwitch(t, b, k) ==
  LET Rx == b.orbitRadius
      Ry == b.orbitRadiusY
      w  == b.orbitSpeed
      ph == b.orbitPhase
      th == AShift(AScale(w, t), ph)
      th2 == AScale(RInt(2), th)
      th3 == AScale(RInt(3), th)
      circle == <<Mul(Rx, MathCos(th)), RInt(0), Mul(Rx, MathSin(th))>>
  IN  CASE b.orbitType = "circle" -> circle
        [] b.orbitType = "ellipse" ->
             <<Mul(Rx, MathCos(th)), RInt(0), Mul(Ry, MathSin(th))>>
        [] b.orbitType = "inclinedEllipse" ->
             LET x == Mul(Rx, MathCos(th))
                 z == Mul(Ry, MathSin(th))
                 y == Mul(MathSin(<<b.inclination, RInt(0)>>), z)
             IN  <<x, y, Mul(MathCos(<<b.inclination, RInt(0)>>), z)>>
        [] b.orbitType = "lissajous" ->
             <<Mul(Rx, MathSin(th)), Mul(Ry, MathSin(AScale(RMul(k, w), t))),
               Mul(Rx, MathCos(th))>>
        [] b.orbitType = "rose" ->
             <<Mul(Mul(Rx, MathCos(AScale(k, th))), MathCos(th)), RInt(0),
               Mul(Mul(Rx, MathCos(AScale(k, th))), MathSin(th))>>
        [] b.orbitType = "lemniscate" ->
             LET a == Rx
                 r == Div(Mul(Mul(a, MathSqrt2), MathCos(th2)), Add(RInt(1), MathSin(th2)))
             IN  <<Mul(r, MathCos(th)), RInt(0), Mul(r, MathSin(th))>>
        [] b.orbitType = "trefoil" ->
             LET s == RMul(Rx, R(3, 10))
             IN  <<Mul(Add(MathSin(th), Mul(RInt(2), MathSin(th2))), s),
                   Mul(Sub(MathCos(th), Mul(RInt(2), MathCos(th2))), s),
                   Mul(Neg(MathSin(th3)), s)>>
        [] b.orbitType = "figure8Knot" ->
             LET s == RMul(Rx, R(1, 4))
             IN  <<Mul(Mul(Add(RInt(2), MathCos(th2)), MathCos(th3)), s),
                   Mul(MathSin(th2), s),
                   Mul(Mul(Add(RInt(2), MathCos(th2)), MathSin(th3)), s)>>
        [] b.orbitType = "epicycloid" ->
             LET a  == RMul(Rx, R(6, 10))
                 b2 == RMul(Rx, R(2, 10))
                 x  == Sub(Mul(RAdd(a, b2), MathCos(th)),
                           Mul(b2, MathCos(AScale(RDiv(RAdd(a, b2), b2), th))))
                 z  == Sub(Mul(RAdd(a, b2), MathSin(th)),
                           Mul(b2, MathSin(AScale(RDiv(RAdd(a, b2), b2), th))))
             IN  <<x, RInt(0), z>>
        [] OTHER -> circle

\* (a variant that takes half of b.k)
OrbitPositionHalfK(t, b) == OrbitSwitch(t, b, RMul(b.k, R(1, 2)))

OrbitPosition(t, b) == OrbitSwitch(t, b, b.k)

(***************************************************************************)
(* The state after construction: the store's initial value (App.tsx        *)
(* 158-182) and the first render, which mounts the central body's          *)
(* components and starts its load effect.                                  *)
(***************************************************************************)
NewLoad(id, props) ==
  [id |-> id, imageUrl |-> props.imageUrl, heightMode |-> props.heightMode,
   isCancelled |-> FALSE]


InitDisplay ==
  /\ imageUrl = NULL
  /\ heightScale = 3
  /\ heightMode = "luminance"
  /\ wireframe = FALSE
  /\ shading = "geographic"
  /\ seaLevel = R(1, 2)
  /\ showContours = FALSE
  /\ contourSteps = 24
  /\ showSea = TRUE
  /\ aspectY = RInt(1)
  /\ heightmap = [data |-> NoHeights, width |-> 0, height |-> 0]

InitStore ==
  /\ bodies = <<createDefaultBody("central", [isCentral |-> TRUE])>>
  /\ activeBodyId = "central"
  /\ InitDisplay

InitComponents ==
  /\ tRef = [id \in Ids(bodies) |-> 0]
  /\ trailPoints = [id \in Ids(bodies) |-> <<>>]
  /\ terrain = [id \in Ids(bodies) |-> EmptyTerrain]
  /\ memo = [id \in Ids(bodies) |->
               useMemo(FALSE, NoCell, EmptyTerrain, TerrainProps(BodyOf(bodies, id), imageUrl))]
  /\ pending = {NewLoad(id, TerrainProps(BodyOf(bodies, id), imageUrl)) : id \in Ids(bodies)}
  /\ orbitTicks = [id \in Ids(bodies) |-> <<>>]
  /\ constLen = [id \in Ids(bodies) |-> BodyOf(bodies, id).trailLength]
  /\ lastLoad = "none"
  /\ viaUI = TRUE

\* no export has been requested
InitIO ==
  /\ downloads = <<>>
  /\ exportReturn = NULL
  /\ exportCalls = 0

\* the scene fields of the initial state (lines 163, 168, 169), and the
\* presets found in localStorage
InitPreset(stored) ==
  /\ viewPreset = "perspective"
  /\ sunAzimuth = 135
  /\ sunElevation = 35
  /\ presets = stored

Init ==
  /\ InitStore
  /\ InitComponents
  /\ fnArgs = NULL
  /\ fnOut = <<>>
  /\ InitIO
  /\ InitPreset(<<>>)

(***************************************************************************)
(* The re-render that follows a change of the store or of a terrain.       *)
(* nb and nUrl are the new bodies and global imageUrl, nTer the terrain    *)
(* states of the components mounted so far.                                *)
(***************************************************************************)
Render(nb, nUrl, nTer) ==
  LET old == DOMAIN tRef
      new == Ids(nb)
      pNew(id) == TerrainProps(BodyOf(nb, id), nUrl)
      \* the effect's dependencies [imageUrl, heightMode], line 407
      changed(id) == \/ UrlProp(BodyOf(bodies, id), imageUrl) # UrlProp(BodyOf(nb, id), nUrl)
                     \/ BodyOf(bodies, id).heightMode # BodyOf(nb, id).heightMode
      \* the cleanup (line 405) runs on unmount and before the effect runs again
      cleaned(id) == id \notin new \/ (id \in old /\ changed(id))
      started == {id \in new : id \notin old \/ changed(id)}
  IN  /\ tRef' = [id \in new |-> IF id \in old THEN tRef[id] ELSE 0]
      /\ trailPoints' = [id \in new |-> IF id \in old THEN trailPoints[id] ELSE <<>>]
      /\ terrain' = [id \in new |-> IF id \in old THEN nTer[id] ELSE EmptyTerrain]
      /\ memo' = [id \in new |->
                    IF id \in old THEN useMemo(TRUE, memo[id], nTer[id], pNew(id))
                    ELSE useMemo(FALSE, NoCell, EmptyTerrain, pNew(id))]
      /\ pending' = {IF cleaned(q.id) THEN [q EXCEPT !.isCancelled = TRUE] ELSE q : q \in pending}
                      \cup {NewLoad(id, pNew(id)) : id \in started}
      /\ orbitTicks' = [id \in new |-> IF id \in old THEN orbitTicks[id] ELSE <<>>]
      /\ constLen' = [id \in new |->
                        LET L == BodyOf(nb, id).trailLength
                        IN  IF id \notin old \/ trailPoints[id] = <<>> THEN L
                            ELSE IF L = BodyOf(bodies, id).trailLength THEN constLen[id]
                            ELSE 0]

displayVars == <<heightScale, heightMode, wireframe, shading, seaLevel, showContours,
                 contourSteps, showSea>>

(***************************************************************************)
(* The store's operations (App.tsx 236-271).                               *)
(***************************************************************************)
\* ids are Date.now() plus a random number: a fresh one is taken from a pool
IdPool == <<"t1", "t2", "t3">>
FreshId(bs) == IdPool[CHOOSE i \in 1..Len(IdPool) :
                        /\ IdPool[i] \notin Ids(bs)
                        /\ \A j \in 1..(i - 1) : IdPool[j] \in Ids(bs)]

\* the Remove buttons, lines 654 and 1076: disabled={... || bodies.length <= 1}
RemoveDisabledAlways == FALSE
RemoveDisabled == activeBodyId = NULL \/ Len(bodies) <= 1

addBody ==
  /\ Len(bodies) < MaxBodies
  /\ LET id      == FreshId(bodies)
         newBody == createDefaultBody(id, [isCentral |-> FALSE, orbitEnabled |-> TRUE])
     IN  /\ bodies' = Append(bodies, newBody)
         /\ activeBodyId' = id
         /\ Render(bodies', imageUrl, terrain)
  /\ UNCHANGED <<imageUrl, displayVars, loadedVars, lastLoad, viaUI, fnVars, ioVars, presetVars>>

removeActiveBody ==
  /\ activeBodyId # NULL
  /\ LET filtered == Filter(bodies, activeBodyId)
     IN  /\ bodies' = filtered
         /\ activeBodyId' = IF Len(filtered) > 0 THEN filtered[1].id ELSE NULL
         /\ Render(bodies', imageUrl, terrain)
  /\ viaUI' = (viaUI /\ ~RemoveDisabled)
  /\ UNCHANGED <<imageUrl, displayVars, loadedVars, lastLoad, fnVars, ioVars, presetVars>>

selectBody(id) ==
  /\ activeBodyId' = id
  /\ IF id \in Ids(bodies)
     THEN LET b == BodyOf(bodies, id)
          IN  /\ heightScale' = b.heightScale
              /\ heightMode' = b.heightMode
              /\ wireframe' = b.wireframe
              /\ shading' = b.shading
              /\ seaLevel' = b.seaLevel
              /\ showContours' = b.showContours
              /\ contourSteps' = b.contourSteps
              /\ showSea' = b.showSea
     ELSE UNCHANGED displayVars
  /\ viaUI' = (viaUI /\ id \in Ids(bodies))
  /\ Render(bodies, imageUrl, terrain)
  /\ UNCHANGED <<bodies, imageUrl, loadedVars, lastLoad, fnVars, ioVars, presetVars>>

updateActiveBody(patch) ==
  /\ activeBodyId # NULL
  /\ bodies' = [i \in 1..Len(bodies) |->
                  IF bodies[i].id = activeBodyId THEN Patch(bodies[i], patch) ELSE bodies[i]]
  /\ Render(bodies', imageUrl, terrain)
  /\ UNCHANGED <<activeBodyId, imageUrl, displayVars, loadedVars, lastLoad, viaUI, fnVars, ioVars, presetVars>>

(***************************************************************************)
(* The per-body setters (App.tsx 184-230).  Each one sets the global field *)
(* and then maps the bodies, replacing the field in the records whose id   *)
(* is activeBodyId; there is no early return for a null activeBodyId.      *)
(***************************************************************************)
\* bodies.map with the test b.id === activeBodyId left out
mapEveryBody(patch) == [i \in 1..Len(bodies) |-> Patch(bodies[i], patch)]

\* bodies.map(b => b.id === activeBodyId ? { ...b, ...patch } : b)
mapActiveBody(patch) ==
  [i \in 1..Len(bodies) |->
     IF bodies[i].id = activeBodyId THEN Patch(bodies[i], patch) ELSE bodies[i]]

\* the body the eight setters share, for the field f: set({ f: v }), then
\* set({ bodies: bodies.map(...) }), and the re-render that follows
setField(f, v) ==
  /\ heightScale' = IF f = "heightScale" THEN v ELSE heightScale
  /\ heightMode' = IF f = "heightMode" THEN v ELSE heightMode
  /\ wireframe' = IF f = "wireframe" THEN v ELSE wireframe
  /\ shading' = IF f = "shading" THEN v ELSE shading
  /\ seaLevel' = IF f = "seaLevel" THEN v ELSE seaLevel
  /\ showContours' = IF f = "showContours" THEN v ELSE showContours
  /\ contourSteps' = IF f = "contourSteps" THEN v ELSE contourSteps
  /\ showSea' = IF f = "showSea" THEN v ELSE showSea
  /\ bodies' = mapActiveBody([g \in {f} |-> v])
  /\ Render(bodies', imageUrl, terrain)
  /\ UNCHANGED <<activeBodyId, imageUrl, loadedVars, lastLoad, viaUI, fnVars, ioVars, presetVars>>

\* lines 184-188
setHeightScale(v) == setField("heightScale", v)

\* lines 189-193
setHeightMode(v) == setField("heightMode", v)

\* lines 194-198
setWireframe(v) == setField("wireframe", v)

\* lines 200-204
setShading(v) == setField("shading", v)

\* lines 205-209
setSeaLevel(v) == setField("seaLevel", v)

\* lines 210-214
setShowContours(v) == setField("showContours", v)

\* lines 215-219
setContourSteps(v) == setField("contourSteps", v)

\* lines 226-230
setShowSea(v) == setField("showSea", v)

\* FileDrop.onFile, lines 814-818: setImageUrl(url), then the active body's imageUrl
onFile(url) ==
  \* URL.createObjectURL returns a URL that is not in use
  /\ url # imageUrl
  /\ \A i \in 1..Len(bodies) : bodies[i].imageUrl # url
  /\ imageUrl' = url
  /\ bodies' = IF activeBodyId # NULL
               THEN [i \in 1..Len(bodies) |->
                       IF bodies[i].id = activeBodyId
                       THEN Patch(bodies[i], [imageUrl |-> url]) ELSE bodies[i]]
               ELSE bodies
  /\ Render(bodies', url, terrain)
  /\ UNCHANGED <<activeBodyId, displayVars, loadedVars, lastLoad, viaUI, fnVars, ioVars, presetVars>>

(***************************************************************************)
(* One animation frame (BodyInstance's useFrame callback, App.tsx          *)
(* 998-1012).  The render loop calls every mounted body's callback with    *)
(* the frame's delta; groupRef.current is set once the body is mounted.    *)
(***************************************************************************)
TrailNextNoLimit(pts, p, trailLength) == Append(pts, p)

\* the updater given to setTrailPoints, lines 1006-1010
TrailNext(pts, p, trailLength) ==
  LET next == Append(pts, p)
  IN  IF Len(next) > trailLength THEN Tail(next) ELSE next

OrbitingAlways(b) == TRUE

\* the condition of line 1001
Orbiting(b) == ~b.isCentral /\ b.orbitEnabled

\* an accumulator that runs only while the body orbits
TickWhileOrbiting(t, delta, b) == IF Orbiting(b) THEN t + delta ELSE t

\* tRef.current += delta, line 1000, before the test of line 1001
Tick(t, delta, b) == t + delta

Frame(delta) ==
  /\ DOMAIN tRef # {}
  /\ \A id \in DOMAIN tRef : tRef[id] + delta <= MaxTime
  /\ tRef' = [id \in DOMAIN tRef |-> Tick(tRef[id], delta, BodyOf(bodies, id))]
  /\ trailPoints' = [id \in DOMAIN tRef |->
                       LET b == BodyOf(bodies, id)
                       IN  IF Orbiting(b)
                           THEN TrailNext(trailPoints[id], computeOrbitPosition(tRef'[id], b),
                                          b.trailLength)
                           ELSE trailPoints[id]]
  /\ orbitTicks' = [id \in DOMAIN tRef |->
                      LET b == BodyOf(bodies, id)
                      IN  IF Orbiting(b)
                          THEN Append(orbitTicks[id], computeOrbitPosition(tRef'[id], b))
                          ELSE orbitTicks[id]]
  \* setTrailPoints re-renders the body and its TerrainMesh with the same props
  /\ memo' = [id \in DOMAIN tRef |->
                useMemo(TRUE, memo[id], terrain[id], TerrainProps(BodyOf(bodies, id), imageUrl))]
  /\ UNCHANGED <<storeVars, loadedVars, terrain, pending, constLen, lastLoad, viaUI, fnVars, ioVars, presetVars>>

(***************************************************************************)
(* The load effect of TerrainMesh (App.tsx 384-407).  A pending decode     *)
(* settles at any time: readImageData resolves and load() continues after  *)
(* its await, or it rejects and the catch block runs.                      *)
(***************************************************************************)
\* an identity no live Float32Array has
FreshHid ==
  LET live == {terrain[id].heights.hid : id \in DOMAIN terrain} \cup {heightmap.data.hid}
  IN  CHOOSE n \in 1..(Cardinality(live) + 1) : n \notin live

IsCancelledNever(q) == FALSE

\* if (isCancelled) return, lines 391 and 395
IsCancelled(q) == q.isCancelled

DecodeResolve(q) ==
  /\ q \in pending
  /\ Decodes(q.imageUrl)
  /\ IF IsCancelled(q)
     THEN /\ lastLoad' = "discarded"
          /\ pending' = pending \ {q}
          /\ UNCHANGED <<loadedVars, tRef, trailPoints, terrain, memo>>
     ELSE LET img     == readImageData(q.imageUrl)
              heights == [hid  |-> FreshHid,
                          vals |-> computeHeightMap(img.width, img.height, img.data, q.heightMode)]
              t       == [texture |-> img.canvas, heights |-> heights,
                          width |-> img.width, height |-> img.height]
              nTer    == [id \in DOMAIN terrain |-> IF id = q.id THEN t ELSE terrain[id]]
          IN  /\ lastLoad' = "applied"
              /\ aspectY' = R(img.height, img.width)
              /\ heightmap' = [data |-> heights, width |-> img.width, height |-> img.height]
              /\ terrain' = nTer
              /\ memo' = [id \in DOMAIN memo |->
                            useMemo(TRUE, memo[id], nTer[id],
                                    TerrainProps(BodyOf(bodies, id), imageUrl))]
              /\ pending' = pending \ {q}
              /\ UNCHANGED <<tRef, trailPoints>>
  /\ UNCHANGED <<storeVars, orbitTicks, constLen, viaUI, fnVars, ioVars, presetVars>>

DecodeRejectClears(q) ==
  /\ q \in pending
  /\ ~Decodes(q.imageUrl)
  /\ lastLoad' = "failed"
  /\ pending' = pending \ {q}
  /\ terrain' = [id \in DOMAIN terrain |-> IF id = q.id THEN EmptyTerrain ELSE terrain[id]]
  /\ memo' = [id \in DOMAIN memo |->
                useMemo(TRUE, memo[id], terrain'[id], TerrainProps(BodyOf(bodies, id), imageUrl))]
  /\ UNCHANGED <<storeVars, loadedVars, tRef, trailPoints, orbitTicks, constLen, viaUI, fnVars, ioVars, presetVars>>

\* the catch block, lines 399-401: a no-op
DecodeReject(q) ==
  /\ q \in pending
  /\ ~Decodes(q.imageUrl)
  /\ lastLoad' = "failed"
  /\ pending' = pending \ {q}
  /\ UNCHANGED <<storeVars, loadedVars, tRef, trailPoints, terrain, memo,
                 orbitTicks, constLen, viaUI, fnVars, ioVars, presetVars>>

(***************************************************************************)
(* A call of computeHeightMap on the arguments fnArgs.                     *)
(***************************************************************************)
PixelSamples == {<<0, 0, 0, 255>>, <<255, 255, 255, 255>>, <<200, 30, 10, 255>>,
                 <<10, 200, 30, 255>>}
UnknownMode  == "sepia"

Flatten(pix) == [k \in 1..(4 * Len(pix)) |-> pix[((k - 1) \div 4) + 1][((k - 1) % 4) + 1]]

ImageShapes == {wh \in (1..MaxPixels) \X (1..MaxPixels) : wh[1] * wh[2] <= MaxPixels}

HeightMapArgs ==
  UNION {{[width |-> wh[1], height |-> wh[2], data |-> Flatten(pix), mode |-> m] :
            pix \in [1..(wh[1] * wh[2]) -> PixelSamples],
            m \in HeightMappingModes \cup {UnknownMode}}
         : wh \in ImageShapes}

InitHeightMap ==
  /\ InitStore
  /\ InitComponents
  /\ fnArgs \in HeightMapArgs
  /\ fnOut = <<>>
  /\ InitIO
  /\ InitPreset(<<>>)

CallComputeHeightMap ==
  /\ fnOut = <<>>
  /\ fnOut' = computeHeightMap(fnArgs.width, fnArgs.height, fnArgs.data, fnArgs.mode)
  /\ UNCHANGED <<storeVars, loadedVars, compVars, histVars, fnArgs, ioVars, presetVars>>

(***************************************************************************)
(* exportHeightmapPNG and exportHeightmapTIFF (App.tsx 1145-1183).  A file *)
(* is kept by its name, its size and its decoded pixels: PNG and the       *)
(* uncompressed TIFF of UTIF.encodeImage are lossless for 8-bit samples.   *)
(* Both functions are declared without a return value.                     *)
(***************************************************************************)
UNDEFINED == "undefined"

\* (a variant that cuts the fraction off)
MathFloor(x) == x[1] \div x[2]

\* Math.round: to the nearest integer, halves upwards
MathRound(x) == (2 * x[1] + x[2]) \div (2 * x[2])

\* Math.max(0, Math.min(255, Math.round(hm.data[i] * 255)))
Sample8(h) == Max(0, Min(255, MathRound(RMul(h, RInt(255)))))

\* if (!hm.data || !hm.width || !hm.height) return;
NoHeightField(hm) == hm.data = NoHeights \/ hm.width = 0 \/ hm.height = 0

RECURSIVE RGBA(_)
RGBA(vs) ==
  IF vs = <<>> THEN <<>>
  ELSE <<vs[1], vs[1], vs[1], 255>> \o RGBA(Tail(vs))

ExportCall ==
  /\ exportCalls < MaxExports
  /\ exportCalls' = exportCalls + 1
  /\ exportReturn' = UNDEFINED
  /\ UNCHANGED <<storeVars, loadedVars, compVars, histVars, fnVars, presetVars>>

\* ctx is what canvas.getContext('2d') returns: a context, or null
exportHeightmapPNG(ctx) ==
  LET hm == heightmap
      v  == [i \in 1..(hm.width * hm.height) |-> Sample8(hm.data.vals[i])]
  IN  /\ ExportCall
      /\ downloads' =
           IF NoHeightField(hm) \/ ctx = NULL THEN downloads
           ELSE Append(downloads, [name |-> "heightmap.png", width |-> hm.width,
                                   height |-> hm.height, data |-> RGBA(v)])

exportHeightmapTIFF ==
  LET hm   == heightmap
      buff == [i \in 1..(hm.width * hm.height) |-> Sample8(hm.data.vals[i])]
  IN  /\ ExportCall
      /\ downloads' =
           IF NoHeightField(hm) THEN downloads
           ELSE Append(downloads, [name |-> "heightmap.tiff", width |-> hm.width,
                                   height |-> hm.height, data |-> buff])

(***************************************************************************)
(* Presets (App.tsx 1187-1233) and the setters they use (184-221).  A      *)
(* preset is a record of its name and of those of the ten preset fields it *)
(* has.  JSON.stringify followed by JSON.parse gives back the strings,     *)
(* booleans and finite numbers it is given, so the list read from          *)
(* localStorage is the list that was written.                              *)
(***************************************************************************)
PresetFields ==
  {"heightScale", "heightMode", "wireframe", "viewPreset", "shading", "seaLevel",
   "showContours", "contourSteps", "sunAzimuth", "sunElevation"}

\* the preset fields that the setters also write to the active body
BodyPresetFields ==
  {"heightScale", "heightMode", "wireframe", "shading", "seaLevel", "showContours",
   "contourSteps"}

\* the live values of the ten fields
LiveState ==
  [heightScale |-> heightScale, heightMode |-> heightMode, wireframe |-> wireframe,
   viewPreset |-> viewPreset, shading |-> shading, seaLevel |-> seaLevel,
   showContours |-> showContours, contourSteps |-> contourSteps,
   sunAzimuth |-> sunAzimuth, sunElevation |-> sunElevation]

setViewPreset(v) ==
  /\ viewPreset' = v
  /\ UNCHANGED <<storeVars, loadedVars, compVars, histVars, fnVars, ioVars, sunAzimuth,
                 sunElevation, presets>>

setSunAzimuth(v) ==
  /\ sunAzimuth' = v
  /\ UNCHANGED <<storeVars, loadedVars, compVars, histVars, fnVars, ioVars, viewPreset,
                 sunElevation, presets>>

\* name is the answer to the prompt
savePreset(name) ==
  /\ name \notin {NULL, ""}
  /\ Len(presets) < MaxPresets
  /\ presets' = Append(presets, [f \in PresetFields \cup {"name"} |->
                                   IF f = "name" THEN name ELSE LiveState[f]])
  /\ UNCHANGED <<storeVars, loadedVars, compVars, histVars, fnVars, ioVars, viewPreset,
                 sunAzimuth, sunElevation>>

\* the tests of lines 1223-1232: !== undefined for numbers and booleans,
\* truthiness for the three string fields
PresetApplies(preset, f) ==
  /\ f \in DOMAIN preset
  /\ f \in {"heightMode", "viewPreset", "shading"} => preset[f] # ""

loadPreset(name) ==
  /\ presets # <<>>
  /\ name \notin {NULL, ""}
  /\ \E i \in 1..Len(presets) : presets[i].name = name
  /\ LET \* list.find: the first preset of that name
         first  == CHOOSE i \in 1..Len(presets) :
                     presets[i].name = name /\ \A j \in 1..(i - 1) : presets[j].name # name
         preset == presets[first]
         new    == [f \in PresetFields |->
                      IF PresetApplies(preset, f) THEN preset[f] ELSE LiveState[f]]
         patch  == [f \in {g \in BodyPresetFields : PresetApplies(preset, g)} |-> preset[f]]
     IN  /\ heightScale' = new.heightScale
         /\ heightMode' = new.heightMode
         /\ wireframe' = new.wireframe
         /\ viewPreset' = new.viewPreset
         /\ shading' = new.shading
         /\ seaLevel' = new.seaLevel
         /\ showContours' = new.showContours
         /\ contourSteps' = new.contourSteps
         /\ sunAzimuth' = new.sunAzimuth
         /\ sunElevation' = new.sunElevation
         /\ bodies' = [i \in 1..Len(bodies) |->
                         IF bodies[i].id = activeBodyId THEN Patch(bodies[i], patch)
                         ELSE bodies[i]]
  /\ Render(bodies', imageUrl, terrain)
  /\ UNCHANGED <<activeBodyId, imageUrl, showSea, loadedVars, lastLoad, viaUI, fnVars, ioVars,
                 presets>>

(***************************************************************************)
(* Calls of the other pure functions: the arguments are drawn by the       *)
(* initial state, the call stores the result.                              *)
(***************************************************************************)
InitCall(argSet) ==
  /\ InitStore
  /\ InitComponents
  /\ fnArgs \in argSet
  /\ fnOut = <<>>
  /\ InitIO
  /\ InitPreset(<<>>)

Call(result) ==
  /\ fnOut = <<>>
  /\ fnOut' = result
  /\ UNCHANGED <<storeVars, loadedVars, compVars, histVars, fnArgs, ioVars, presetVars>>

\* the sizes a height field can have: readImageData gives 1..MAX_IMAGE_DIMENSION
DimSamples ==
  (1..MaxSmallDim) \cup {MAX_SPHERE_SEGMENTS + d : d \in (-2)..3} \cup {MAX_IMAGE_DIMENSION}

\* heights 0, 1/MaxHDen, ..., 1, and the quarters
HSamples == UNION {{R(k, d) : k \in 0..d} : d \in {4, MaxHDen}}

VertexArgs ==
  [h : HSamples, heightScale : {RInt(0), R(3, 50), R(1, 2), RInt(2)},
   seaLevel : {R(1, 2)}, shading : {"geographic", "grayscale", "viridis"},
   showContours : BOOLEAN, contourSteps : {6, 7, 24}]

\* the vertex sampling height h and the one sampling 1 - h
CallVertex ==
  LET a == fnArgs
  IN  Call([at     |-> Vertex(a.h, a.heightScale, a.seaLevel, a.shading, a.showContours,
                              a.contourSteps),
            mirror |-> Vertex(RSub(RInt(1), a.h), a.heightScale, a.seaLevel, a.shading,
                              a.showContours, a.contourSteps)])

\* palette positions 0, 1/MaxTDen, ..., 1 and two outside [0, 1]
TSamples == {R(k, MaxTDen) : k \in 0..MaxTDen} \cup {R(-1, 2), R(3, 2)}

\* half the distance of the samples
HalfStep == R(1, 2 * MaxTDen)

\* gradient at t and half a step further, in exact arithmetic; at the ends
\* of the palette also in doubles
CallGradient ==
  LET stops == PaletteStops[fnArgs.mode]
      t     == fnArgs.t
  IN  Call([c     |-> gradient(stops, t),
            cNext |-> gradient(stops, RAdd(t, HalfStep)),
            dbl   |-> IF t \in {RInt(0), RInt(1)} THEN gradientD(stops, t) ELSE <<>>])

\* heights and sea levels in hundredths, the step of the sea level slider
\* (line 724), and the shading ids that are no palette of getPaletteColor's
\* switch: 'geographic', 'image', and an id that is not a ShadingMode at all
GeoHSamples   == {R(k, MaxGeoDen) : k \in 0..MaxGeoDen}
GeoSeaSamples == {R(k, MaxGeoDen) : k \in {0, 10, 15, 20, 50, 90, MaxGeoDen}}
UnknownShading == "satellite"
GeoModes == {"geographic", "image", UnknownShading}

CallPalette == Call([c |-> getPaletteColor(fnArgs.mode, fnArgs.h, fnArgs.seaLevel)])

\* orbit parameters within the ranges of the sliders (lines 749-754: radius
\* 0.5..10, radius Y 0.1..10, speed 0.01..2, phase 0..6.283, inclination
\* 0..1.57, k 1..12 in steps of 1), and times q + c * 2 pi
OrbitBodies ==
  [orbitType : OrbitTypes \cup {"spiral"}, orbitRadius : {R(1, 2), R(5, 2)},
   orbitRadiusY : {R(3, 2)}, orbitSpeed : {R(1, 100), R(1, 5), RInt(2)},
   orbitPhase : {RInt(0), R(157, 100)}, inclination : {R(1, 2)},
   k : {RInt(j) : j \in 1..MaxK}]
OrbitTimes == {<<RInt(0), RInt(0)>>, <<R(7, 3), RInt(0)>>, <<R(1, 60), R(3, 8)>>}

\* the period 2 pi / w
Period(w) == <<RInt(0), RDiv(RInt(1), w)>>

CallOrbit ==
  Call([at    |-> OrbitPosition(fnArgs.t, fnArgs.b),
        later |-> OrbitPosition(AddTime(fnArgs.t, Period(fnArgs.b.orbitSpeed)), fnArgs.b)])

\* source sizes: small ones, sizes around MAX_IMAGE_DIMENSION and larger ones
SrcSamples ==
  (1..MaxSmallDim) \cup {MAX_IMAGE_DIMENSION + d : d \in (-1)..1}
                   \cup {2 * MAX_IMAGE_DIMENSION + d : d \in 0..1} \cup {3000, 4 * MAX_IMAGE_DIMENSION}

CallTargetSize == Call(TargetSize(fnArgs.srcW, fnArgs.srcH))

CallSegments ==
  Call([segW |-> segW(fnArgs.width), segH |-> segH(fnArgs.height)])

(***************************************************************************)
(* Specifications.  Spec explores the store's operations; SpecTrail adds   *)
(* the animation frames; SpecLoad explores the image loads; SpecGeom the   *)
(* memoized geometry; SpecHeightMap calls computeHeightMap on bounded      *)
(* images.                                                                 *)
(***************************************************************************)
GhostId == "ghost"      \* an id that names no body

StorePatches == {[wireframe |-> TRUE], [orbitEnabled |-> FALSE], [orbitEnabled |-> TRUE]}

Next ==
  \/ addBody
  \/ removeActiveBody
  \/ \E id \in Ids(bodies) \cup {GhostId} : selectBody(id)
  \/ \E patch \in StorePatches : updateActiveBody(patch)

Spec == Init /\ [][Next]_vars

TrailPatches ==
  {[orbitEnabled |-> v] : v \in BOOLEAN} \cup {[trailLength |-> n] : n \in {1, MaxTrail}}

NextTrail ==
  \/ addBody
  \/ \E patch \in TrailPatches : updateActiveBody(patch)
  \/ Frame(1)

SpecTrail == Init /\ [][NextTrail]_vars

\* the cancelled decodes still in flight are at most MaxStale
StaleBounded(pend) == Cardinality({q \in pend : q.isCancelled}) <= MaxStale

LoadPatches == {[heightMode |-> "luminance"], [heightMode |-> "red"]}

\* SpecLoad and SpecGeom start where addBody leaves the initial state: the
\* central body and a second, active, orbiting body
InitGeom ==
  /\ bodies = <<createDefaultBody("central", [isCentral |-> TRUE]),
                createDefaultBody(FreshId(<<>>), [isCentral |-> FALSE, orbitEnabled |-> TRUE])>>
  /\ activeBodyId = FreshId(<<>>)
  /\ InitDisplay
  /\ InitComponents
  /\ fnArgs = NULL
  /\ fnOut = <<>>
  /\ InitIO
  /\ InitPreset(<<>>)

\* the files dropped in SpecLoad: one that decodes and one that does not
LoadUrls == {"b", BadUrl}

NextLoad ==
  \/ \E url \in LoadUrls : onFile(url) /\ StaleBounded(pending')
  \/ \E patch \in LoadPatches : updateActiveBody(patch) /\ StaleBounded(pending')
  \/ \E q \in pending : DecodeResolve(q)
  \/ \E q \in pending : DecodeReject(q)

SpecLoad == InitGeom /\ [][NextLoad]_vars

GeomPatches ==
  {[heightScale |-> 5], [seaLevel |-> R(3, 10)], [shading |-> "grayscale"],
   [showContours |-> TRUE], [contourSteps |-> 6],
   [wireframe |-> TRUE], [orbitType |-> "ellipse"], [trailLength |-> 1]}

NextGeom ==
  \/ \E patch \in GeomPatches : updateActiveBody(patch)
  \/ onFile("a") /\ StaleBounded(pending')
  \/ \E q \in pending : DecodeResolve(q)
  \/ \E q \in pending : DecodeReject(q)
  \/ Frame(1) /\ \A id \in DOMAIN tRef : tRef'[id] <= MaxFrames

SpecGeom == InitGeom /\ [][NextGeom]_vars

NextHeightMap == CallComputeHeightMap

SpecHeightMap == InitHeightMap /\ [][NextHeightMap]_vars

(***************************************************************************)
(* The trail of a body (checked under SpecTrail).                          *)
(***************************************************************************)
Mounted == DOMAIN tRef

\* the last n elements of a sequence
LastN(seq, n) == SubSeq(seq, Len(seq) - n + 1, Len(seq))

\* C1: while a non-central orbiting body's trailLength has been the constant
\* L >= 1 since its trail was empty, after N orbiting ticks the trail holds
\* exactly the last min(N, L) computed positions, in tick order (so when N > L
\* its first element is the position of tick N-L+1: the oldest go first).
C1_TrailIsLastMinNL ==
  \A id \in Mounted :
    constLen[id] >= 1 =>
      LET N == Len(orbitTicks[id])
          L == constLen[id]
      IN  /\ Len(trailPoints[id]) = IF N <= L THEN N ELSE L
          /\ trailPoints[id] = LastN(orbitTicks[id], IF N <= L THEN N ELSE L)
          /\ N > L => trailPoints[id][1] = orbitTicks[id][N - L + 1]

\* the scenario of C1: 5 ticks with trailLength 3 leave the positions of ticks 3, 4, 5
C1_FiveTicksLengthThree ==
  \E id \in Mounted :
    /\ constLen[id] = 3
    /\ BodyOf(bodies, id).trailLength = 3
    /\ Len(orbitTicks[id]) = 5
    /\ trailPoints[id] = [i \in 1..3 |-> computeOrbitPosition(i + 2, BodyOf(bodies, id))]

\* C2 (as the specification states it): after every tick of an orbiting body
\* the trail is no longer than the body's current trailLength, whatever
\* patches of trailLength came between the ticks.
C2_TrailWithinLengthAfterTick ==
  [][\A id \in Mounted :
       LET b == BodyOf(bodies, id)
       IN  (tRef'[id] # tRef[id] /\ ~b.isCentral /\ b.orbitEnabled)
             => Len(trailPoints'[id]) <= b.trailLength]_vars

\* C3: the trail of a body changes only in a frame in which the body is
\* non-central and has orbitEnabled: a tick of a central body or of a body with
\* orbitEnabled = false leaves the trail as it was, and so does every store
\* operation (switching orbitEnabled off freezes the trail, it does not clear it).
C3_TrailFrozenUnlessOrbiting ==
  [][\A id \in Mounted \cap DOMAIN trailPoints' :
       LET b == BodyOf(bodies, id)
       IN  (b.isCentral \/ ~b.orbitEnabled \/ tRef'[id] = tRef[id])
             => trailPoints'[id] = trailPoints[id]]_vars

\* a body whose orbit was switched off keeps its trail over later ticks, and
\* the central body has ticked without gaining a point
C3_FrozenTrailKept ==
  \E id \in Mounted :
    LET b == BodyOf(bodies, id)
    IN  /\ ~b.isCentral /\ ~b.orbitEnabled
        /\ trailPoints[id] # <<>>
        /\ trailPoints[id] = orbitTicks[id]
        /\ tRef[id] > trailPoints[id][Len(trailPoints[id])].t
        /\ tRef["central"] > 0 /\ trailPoints["central"] = <<>>

(***************************************************************************)
(* The image loads (checked under SpecLoad).                               *)
(***************************************************************************)
\* what the program keeps besides the promises in flight
programState == <<storeVars, loadedVars, tRef, trailPoints, terrain, memo>>

\* C4: latest request wins.  A decode whose body has since changed imageUrl or
\* heightMode (its effect was cleaned up) changes neither a terrain nor
\* aspectY nor the stored heightmap when it completes; and whenever a body's
\* terrain changes, the new terrain is the decode of the body's current
\* imageUrl under its current heightMode, stored with its aspect ratio.
C4_LatestRequestWins ==
  [][/\ \A q \in pending :
          (q.isCancelled /\ pending' = pending \ {q})
            => UNCHANGED <<terrain, aspectY, heightmap>>
     /\ \A id \in DOMAIN terrain \cap DOMAIN terrain' :
          terrain'[id] # terrain[id] =>
            LET b   == BodyOf(bodies', id)
                url == UrlProp(b, imageUrl')
            IN  /\ url \in DOMAIN ImageFiles
                /\ terrain'[id].texture = url
                /\ terrain'[id].width = ImageFiles[url].width
                /\ terrain'[id].height = ImageFiles[url].height
                /\ terrain'[id].heights.vals =
                     computeHeightMap(ImageFiles[url].width, ImageFiles[url].height,
                                      ImageFiles[url].data, b.heightMode)
                /\ heightmap'.data = terrain'[id].heights
                /\ aspectY' = R(ImageFiles[url].height, ImageFiles[url].width)]_vars

\* a body switched to heightMode red while its luminance decode was in flight:
\* the stale decode has completed and been discarded, the terrain is the red one
C4_StaleDecodeDiscarded ==
  /\ lastLoad = "discarded"
  /\ pending = {}
  /\ imageUrl = "b"
  /\ aspectY = R(1, 2)
  /\ \E id \in DOMAIN terrain :
       /\ BodyOf(bodies, id).heightMode = "red"
       /\ terrain[id].texture = "b"
       /\ terrain[id].heights.vals = <<RInt(0), RInt(1)>>

\* C5: a decode that fails updates no state: every terrain (the failing body's
\* included), the stored heightmap, aspectY, the bodies and every component's
\* time, trail and geometry are as before; a body whose terrain is empty
\* keeps the default sphere of 16 x 12 segments.
C5_FailedLoadChangesNothing ==
  [][\A q \in pending :
       (~Decodes(q.imageUrl) /\ pending' = pending \ {q}) =>
         /\ UNCHANGED programState
         /\ (q.id \in DOMAIN terrain /\ terrain[q.id] = EmptyTerrain)
              => (memo'[q.id].geom.segW = 16 /\ memo'[q.id].geom.segH = 12)]_vars

\* the load of an undecodable file has failed for a body that had a terrain,
\* and the terrain is still there
C5_TerrainKeptAfterFailure ==
  /\ lastLoad = "failed"
  /\ \E id \in DOMAIN terrain :
       /\ UrlProp(BodyOf(bodies, id), imageUrl) = BadUrl
       /\ \A q \in pending : q.id # id
       /\ terrain[id].texture = "b"
       /\ heightmap.data.vals # <<>>

\* C6 (as the specification states it): the failure of a body's current load
\* leaves an observable error outcome, i.e. the step in which the decode fails
\* changes something the program keeps.
C6_FailureIsObservable ==
  [][\A q \in pending :
       (~Decodes(q.imageUrl) /\ ~q.isCancelled /\ pending' = pending \ {q})
         => programState' # programState]_vars

(***************************************************************************)
(* The list of bodies (checked under Spec).                                *)
(***************************************************************************)
CentralCount == Cardinality({i \in 1..Len(bodies) : bodies[i].isCentral})

C8_ExactlyOneCentral == viaUI => CentralCount = 1

(***************************************************************************)
(* The memoized geometry (checked under SpecGeom).                         *)
(***************************************************************************)
\* the heightScale TerrainMesh is given, line 1018
HeightScaleProp(b) == R(b.heightScale * b.radius[1], 50 * b.radius[2])

\* the eight inputs C9 lists, for a body b whose TerrainMesh holds terrain ter
C9_Key(ter, b) ==
  <<ter.heights.hid, ter.width, ter.height, HeightScaleProp(b), b.seaLevel, b.shading,
    b.showContours, b.contourSteps>>

\* C9: between consecutive states a body's geometry is rebuilt (a new geometry
\* object) if and only if one of the height field's identity, width, height,
\* heightScale, seaLevel, shading, showContours and contourSteps differs, so
\* frames and patches of wireframe, orbit or trail fields reuse the cached
\* geometry; and the cached geometry always is what the factory computes
\* from the current inputs (no input is missing from the key).
C9_RebuiltIffKeyChanges ==
  /\ [](\A id \in DOMAIN memo :
          LET b == BodyOf(bodies, id)
          IN  memo[id].geom = sphereGeometry(terrain[id], HeightScaleProp(b), b.seaLevel,
                                             b.shading, b.showContours, b.contourSteps))
  /\ [][\A id \in DOMAIN memo \cap DOMAIN memo' :
          (memo'[id].gen # memo[id].gen)
            <=> (C9_Key(terrain'[id], BodyOf(bodies', id)) # C9_Key(terrain[id], BodyOf(bodies, id)))]_vars

\* a body with a loaded image whose geometry was rebuilt for a new seaLevel
\* (its vertex now has the shallow-water colour) and has since gone through a
\* frame and a wireframe patch
C9_RebuiltForSeaLevel ==
  \E id \in DOMAIN memo :
    LET b == BodyOf(bodies, id)
    IN  /\ terrain[id].texture = "a"
        /\ b.seaLevel = R(3, 10)
        /\ b.wireframe
        /\ tRef[id] >= 1
        /\ Len(memo[id].geom.vertices) = 1
        /\ memo[id].geom.vertices[1].color = Col(5000, 25000, 60000)

(***************************************************************************)
(* computeHeightMap (checked under SpecHeightMap).                         *)
(***************************************************************************)
BlackWhite2x2 ==
  [width |-> 2, height |-> 2, mode |-> "luminance",
   data |-> <<0, 0, 0, 255, 255, 255, 255, 255, 0, 0, 0, 255, 255, 255, 255, 255>>]

\* C10: every height computeHeightMap returns is raw/255, where raw is the
\* channel for red, green and blue, the largest and the smallest channel for
\* maxRGB and minRGB, and 0.2126 R + 0.7152 G + 0.0722 B for luminance,
\* grayscaleLum and every other mode; every height is in [0, 1]; the 2x2 image
\* black, white, black, white gives 0, 1, 0, 1 under luminance.
C10_HeightIsRawOver255 ==
  fnOut # <<>> =>
    /\ Len(fnOut) = fnArgs.width * fnArgs.height
    /\ \A k \in 1..Len(fnOut) :
         LET r == fnArgs.data[4 * (k - 1) + 1]
             g == fnArgs.data[4 * (k - 1) + 2]
             b == fnArgs.data[4 * (k - 1) + 3]
             m == fnArgs.mode
             \* 10000 * raw
             raw == IF m = "red" THEN 10000 * r
                    ELSE IF m = "green" THEN 10000 * g
                    ELSE IF m = "blue" THEN 10000 * b
                    ELSE IF m = "maxRGB"
                      THEN 10000 * (CHOOSE c \in {r, g, b} : \A e \in {r, g, b} : c >= e)
                    ELSE IF m = "minRGB"
                      THEN 10000 * (CHOOSE c \in {r, g, b} : \A e \in {r, g, b} : c <= e)
                    ELSE 2126 * r + 7152 * g + 722 * b
         IN  /\ fnOut[k] = R(raw, 2550000)
             /\ fnOut[k][2] > 0
             /\ 0 <= fnOut[k][1] /\ fnOut[k][1] <= fnOut[k][2]
    /\ fnArgs = BlackWhite2x2 => fnOut = <<RInt(0), RInt(1), RInt(0), RInt(1)>>

\* computeHeightMap has been called on the 2x2 image black, white, black, white
C10_BlackWhiteScenario ==
  /\ fnArgs = BlackWhite2x2
  /\ fnOut = <<<<0, 1>>, <<1, 1>>, <<0, 1>>, <<1, 1>>>>

(***************************************************************************)
(* The segment counts of the mesh (checked under SpecSegments).            *)
(***************************************************************************)
NextSegments == CallSegments

SpecSegments == InitCall([width : DimSamples, height : DimSamples]) /\ [][NextSegments]_vars

\* C11: for a height field of width >= 1 and height >= 1 the horizontal
\* segment count is width - 1 clamped to [8, 256] and the vertical one is
\* height - 1 clamped to [6, 256].
C11_SegmentsClamped ==
  fnOut # <<>> =>
    LET w == fnArgs.width - 1
        h == fnArgs.height - 1
    IN  /\ fnOut.segW = IF w < 8 THEN 8 ELSE IF w > 256 THEN 256 ELSE w
        /\ fnOut.segH = IF h < 6 THEN 6 ELSE IF h > 256 THEN 256 ELSE h
        /\ 8 <= fnOut.segW /\ fnOut.segW <= 256
        /\ 6 <= fnOut.segH /\ fnOut.segH <= 256

\* a field as wide as readImageData allows and one pixel high: both clamps act
C11_WideFlatField ==
  /\ fnArgs = [width |-> 1024, height |-> 1]
  /\ fnOut = [segW |-> 256, segH |-> 6]

(***************************************************************************)
(* One vertex of the mesh (checked under SpecVertex).                      *)
(***************************************************************************)
NextVertex == CallVertex

SpecVertex == InitCall(VertexArgs) /\ [][NextVertex]_vars

\* C12: the radius of a vertex is 1 + (h - 0.5) * 2 * heightScale; it is 1
\* for h = 0.5 whatever heightScale is, and the radii at h and at 1 - h are
\* symmetric about 1 (their sum is 2).
C12_RadiusDisplacement ==
  fnOut # <<>> =>
    LET h == fnArgs.h
        s == fnArgs.heightScale
    IN  /\ fnOut.at.radius = R(h[2] * s[2] + (2 * h[1] - h[2]) * s[1], h[2] * s[2])
        /\ h = <<1, 2>> => fnOut.at.radius = <<1, 1>>
        /\ RAdd(fnOut.at.radius, fnOut.mirror.radius) = <<2, 1>>

\* a vertex at h = 1/4 with heightScale 2 is pulled in to radius 0, its mirror
\* at h = 3/4 pushed out to radius 2
C12_QuarterHeight ==
  /\ fnArgs.h = <<1, 4>> /\ fnArgs.heightScale = <<2, 1>>
  /\ fnOut # <<>>
  /\ fnOut.at.radius = <<0, 1>>
  /\ fnOut.mirror.radius = <<2, 1>>

\* C15: with showContours on, the colour of a vertex is the palette colour
\* times 0.88 in each channel if floor(h * contourSteps) is odd and times 1 if
\* it is even; with showContours off it is the palette colour.
C15_ContourBands ==
  fnOut # <<>> =>
    LET h     == fnArgs.h
        c0    == getPaletteColor(fnArgs.shading, h, fnArgs.seaLevel)
        floor == (h[1] * fnArgs.contourSteps) \div h[2]
        shade == IF floor % 2 = 1 THEN R(88, 100) ELSE RInt(1)
    IN  /\ fnArgs.showContours =>
             \A j \in 1..3 : fnOut.at.color[j] = RMul(c0[j], shade)
        /\ ~fnArgs.showContours => fnOut.at.color = c0

\* grayscale, 6 contour steps, h = 1/4: floor(1.5) = 1 is odd, the grey 0.25
\* becomes 0.22; the mirror vertex at h = 3/4 (floor(4.5) = 4) keeps 0.75
C15_OddBandDarkened ==
  /\ fnArgs.h = <<1, 4>> /\ fnArgs.shading = "grayscale"
  /\ fnArgs.showContours /\ fnArgs.contourSteps = 6
  /\ fnOut # <<>>
  /\ fnOut.at.color = <<R(22, 100), R(22, 100), R(22, 100)>>
  /\ fnOut.mirror.color = <<R(3, 4), R(3, 4), R(3, 4)>>

(***************************************************************************)
(* The gradient palettes (checked under SpecGradient).                     *)
(***************************************************************************)
NextGradient == CallGradient

SpecGradient == InitCall([mode : GradientModes, t : TSamples]) /\ [][NextGradient]_vars

\* the argument of the call in [0, 1], the clamp written out
C13_U(t) == IF RLt(t, RInt(0)) THEN RInt(0) ELSE IF RLt(RInt(1), t) THEN RInt(1) ELSE t

NextPalette == CallPalette

SpecPalette ==
  InitCall([mode : GeoModes, h : GeoHSamples, seaLevel : GeoSeaSamples]) /\ [][NextPalette]_vars

\* the upper thresholds of the seven bands and the colours of the eight
C14_Thresholds(sea) ==
  <<IF RLt(RSub(sea, R(15, 100)), RInt(0)) THEN RInt(0) ELSE RSub(sea, R(15, 100)),
    sea, RAdd(sea, R(2, 100)), RAdd(sea, R(20, 100)), RAdd(sea, R(35, 100)),
    RAdd(sea, R(55, 100)), RAdd(sea, R(75, 100))>>
C14_Colours ==
  <<Col(2000, 8000, 30000), Col(5000, 25000, 60000), Col(90000, 85000, 60000),
    Col(30000, 60000, 20000), Col(15000, 45000, 15000), Col(40000, 35000, 30000),
    Col(60000, 60000, 60000), Col(95000, 97000, 100000)>>

\* C14: for h and seaLevel in [0, 1] the geographic palette returns the colour
\* of the first band (deep water, shallow water, sand, grass, dark green,
\* brown rock, light rock) whose upper threshold strictly exceeds h, and the
\* snow colour when none does; the shading ids that are no gradient palette
\* ('geographic', 'image', an unknown id) all get this colour.
C14_GeographicBands ==
  fnOut # <<>> =>
    LET h    == fnArgs.h
        thr  == C14_Thresholds(fnArgs.seaLevel)
        over == {i \in 1..7 : RLt(h, thr[i])}
        band == IF over = {} THEN 8 ELSE CHOOSE i \in over : \A j \in over : i <= j
    IN  fnOut.c = C14_Colours[band]

\* shading 'image', sea level 0.5, h = 0.52: h is the sand band's threshold
\* itself, which does not strictly exceed h, so the colour is that of grass
C14_OnSandThreshold ==
  /\ fnArgs.mode = "image" /\ fnArgs.seaLevel = R(1, 2) /\ fnArgs.h = R(52, 100)
  /\ fnOut # <<>>
  /\ fnOut.c = Col(30000, 60000, 20000)

(***************************************************************************)
(* Orbits (checked under SpecOrbit).                                       *)
(***************************************************************************)
NextOrbit == CallOrbit

SpecOrbit == InitCall([b : OrbitBodies, t : OrbitTimes]) /\ [][NextOrbit]_vars

\* C16: for each of the nine orbit types (and the default branch), every
\* configuration with orbitSpeed w # 0 and an integer k, and every time t,
\* computeOrbitPosition(t) = computeOrbitPosition(t + 2 pi / w).
C16_OrbitPeriodic ==
  (/\ fnOut # <<>>
   /\ fnArgs.b.orbitSpeed # RInt(0)
   /\ fnArgs.b.k[2] = 1) => fnOut.at = fnOut.later

\* a rose with k = 3 at speed 0.2, evaluated a period apart at a time that is
\* no multiple of the period: the same position, which is not that of t = 0
C16_RoseAfterOnePeriod ==
  /\ fnArgs.b.orbitType = "rose" /\ fnArgs.b.k = RInt(3) /\ fnArgs.b.orbitSpeed = R(1, 5)
  /\ fnArgs.b.orbitPhase = RInt(0) /\ fnArgs.b.orbitRadius = R(5, 2)
  /\ fnArgs.t = <<R(7, 3), RInt(0)>>
  /\ fnOut # <<>>
  /\ fnOut.at = fnOut.later
  /\ fnOut.at # OrbitSwitch(<<RInt(0), RInt(0)>>, fnArgs.b, RInt(3))
  /\ fnOut.at[1].l.r = MathCos(<<R(7, 5), RInt(0)>>)

(***************************************************************************)
(* Heightmap export (checked under SpecExport): files are dropped, the     *)
(* height mode changed, decodes settle, and the two Heightmap buttons      *)
(* (line 806) are pressed at any moment.                                   *)
(***************************************************************************)
ExportPatches == {[heightMode |-> "red"], [heightMode |-> "luminance"]}

NextExport ==
  \/ \E url \in {"a", "b"} : onFile(url) /\ StaleBounded(pending')
  \/ \E patch \in ExportPatches : updateActiveBody(patch) /\ StaleBounded(pending')
  \/ \E q \in pending : DecodeResolve(q)
  \/ \E q \in pending : DecodeReject(q)
  \/ \E ctx \in {NULL, "2d"} : exportHeightmapPNG(ctx)
  \/ exportHeightmapTIFF

SpecExport == Init /\ [][NextExport]_vars

\* the step is a call of an export function
C17_ExportStep == exportCalls' # exportCalls

\* C17: the PNG export saves an image of the height field's width and height
\* in which every pixel i has R = G = B = round(clamp(h_i, 0, 1) * 255) and
\* alpha 255; v / 255 is within 1/255 of h_i for every h_i in [0, 1].
C17_PngPixels ==
  [][(C17_ExportStep /\ Len(downloads') > Len(downloads)
      /\ downloads'[Len(downloads')].name = "heightmap.png") =>
       LET f  == downloads'[Len(downloads')]
           hs == heightmap.data.vals
       IN  /\ f.width = heightmap.width /\ f.height = heightmap.height
           /\ Len(hs) = f.width * f.height
           /\ Len(f.data) = 4 * Len(hs)
           /\ \A i \in 1..Len(hs) :
                LET c == IF RLt(hs[i], RInt(0)) THEN RInt(0)
                         ELSE IF RLt(RInt(1), hs[i]) THEN RInt(1) ELSE hs[i]
                    x == RMul(c, RInt(255))
                    \* the integer nearest to x
                    v == CHOOSE n \in 0..255 : RLe(RInt(2 * n - 1), RMul(RInt(2), x))
                                               /\ RLt(RMul(RInt(2), x), RInt(2 * n + 1))
                IN  /\ f.data[4 * i - 3] = v /\ f.data[4 * i - 2] = v
                    /\ f.data[4 * i - 1] = v /\ f.data[4 * i] = 255
                    /\ RLe(RSub(R(v, 255), hs[i]), R(1, 255))
                    /\ RLe(RSub(hs[i], R(v, 255)), R(1, 255))]_vars

\* file a (one pixel, 200 30 10) was loaded under luminance, h = 64.698 / 255,
\* and exported as a 1 x 1 PNG with the grey value 65
C17_LuminancePixelExported ==
  \E k \in 1..Len(downloads) :
    downloads[k] = [name |-> "heightmap.png", width |-> 1, height |-> 1,
                    data |-> <<65, 65, 65, 255>>]

\* C18: an export (PNG or TIFF) requested while there is no height field
\* changes no state, saves no file, and returns a status that tells the
\* caller that the export was not performed.
C18_NoFieldExportReportsStatus ==
  [][(C17_ExportStep /\ NoHeightField(heightmap)) =>
       /\ UNCHANGED <<storeVars, loadedVars, compVars>>
       /\ downloads' = downloads
       /\ exportReturn' # UNDEFINED]_vars

(***************************************************************************)
(* Presets (checked under SpecPreset): the sun and view controls are       *)
(* moved, presets are saved and loaded by name.  localStorage is empty at  *)
(* the start, or holds a preset with two of the ten fields.                *)
(***************************************************************************)
PresetNames == {"A", "B"}
PartialPreset == [name |-> "partial", seaLevel |-> R(3, 10), wireframe |-> TRUE]
StoredPresets == {<<>>, <<PartialPreset>>}

InitPresets ==
  /\ InitStore
  /\ InitComponents
  /\ fnArgs = NULL
  /\ fnOut = <<>>
  /\ InitIO
  /\ \E stored \in StoredPresets : InitPreset(stored)

NextPreset ==
  \/ \E v \in {"perspective", "top"} : setViewPreset(v)
  \/ \E v \in {135, 90} : setSunAzimuth(v)
  \/ \E name \in PresetNames : savePreset(name)
  \/ \E name \in PresetNames \cup {"partial"} : loadPreset(name)

SpecPreset == InitPresets /\ [][NextPreset]_vars

\* C19: loading a preset sets each of the ten preset fields that the record
\* has to the recorded value and leaves the others at their live values; the
\* record loaded under a name is the one that was saved under it (last), so
\* that saving a preset and loading it back restores all ten fields.
C19_LoadRestoresSaved ==
  [][\A name \in PresetNames \cup {"partial"} :
       loadPreset(name) =>
         LET saved  == {i \in 1..Len(presets) : presets[i].name = name}
             last   == CHOOSE i \in saved : \A j \in saved : j <= i
             record == presets[last]
         IN  \A f \in PresetFields :
               LiveState'[f] = IF f \in DOMAIN record THEN record[f] ELSE LiveState[f]]_vars

(***************************************************************************)
(* The target size of readImageData (checked under SpecTargetSize).        *)
(***************************************************************************)
NextTargetSize == CallTargetSize

SpecTargetSize == InitCall([srcW : SrcSamples, srcH : SrcSamples]) /\ [][NextTargetSize]_vars

\* C20: for a source image of srcW x srcH pixels (both >= 1) the target size
\* has max(dstW, dstH) <= 1024 and min(dstW, dstH) >= 1; it is the source size
\* if both source dimensions are <= 1024, otherwise the longer side is 1024
\* and the shorter one round(shorter / longer * 1024).
C20_TargetSizeInRange ==
  fnOut # <<>> =>
    LET srcW    == fnArgs.srcW
        srcH    == fnArgs.srcH
        longer  == IF srcW >= srcH THEN srcW ELSE srcH
        shorter == IF srcW >= srcH THEN srcH ELSE srcW
        \* the integer nearest to shorter / longer * 1024
        scaled  == CHOOSE n \in 0..1024 : /\ (2 * n - 1) * longer <= 2 * 1024 * shorter
                                          /\ 2 * 1024 * shorter < (2 * n + 1) * longer
    IN  /\ fnOut.dstW <= 1024 /\ fnOut.dstH <= 1024
        /\ fnOut.dstW >= 1 /\ fnOut.dstH >= 1
        /\ (srcW <= 1024 /\ srcH <= 1024) => (fnOut.dstW = srcW /\ fnOut.dstH = srcH)
        /\ (srcW > 1024 \/ srcH > 1024) =>
             /\ (srcW >= srcH) => (fnOut.dstW = 1024 /\ fnOut.dstH = scaled)
             /\ (srcW < srcH) => (fnOut.dstH = 1024 /\ fnOut.dstW = scaled)


(***************************************************************************)
(* The display fields (checked under SpecDisplay): bodies are added,       *)
(* removed and selected, and the active body is edited through the         *)
(* per-body setters and through updateActiveBody, with at most MaxEdits    *)
(* fields away from their defaults at a time.                              *)
(***************************************************************************)
DisplayFields == {"heightScale", "heightMode", "wireframe", "shading", "seaLevel",
                  "showContours", "contourSteps", "showSea"}

\* the store's global display fields
Display ==
  [heightScale |-> heightScale, heightMode |-> heightMode, wireframe |-> wireframe,
   shading |-> shading, seaLevel |-> seaLevel, showContours |-> showContours,
   contourSteps |-> contourSteps, showSea |-> showSea]

\* a value other than the default for each field
Edited ==
  [heightScale |-> 5, heightMode |-> "red", wireframe |-> TRUE, shading |-> "grayscale",
   seaLevel |-> R(3, 10), showContours |-> TRUE, contourSteps |-> 6, showSea |-> FALSE,
   radius |-> RInt(2)]

DisplayPatches == {[heightScale |-> 5], [radius |-> RInt(2)]}

\* the defaults of createDefaultBody, which are the store's too (lines 159-175)
Defaults == createDefaultBody("", [isCentral |-> FALSE])

\* the number of fields of the record r that are not at their defaults
Away(r, fields) == Cardinality({f \in fields : r[f] # Defaults[f]})

\* the number of fields, global or of a body, that are not at their defaults
Edits(bs, g) ==
  Away(g, DisplayFields)
    + (IF Len(bs) >= 1 THEN Away(bs[1], DOMAIN Edited) ELSE 0)
    + (IF Len(bs) >= 2 THEN Away(bs[2], DOMAIN Edited) ELSE 0)
    + (IF Len(bs) >= 3 THEN Away(bs[3], DOMAIN Edited) ELSE 0)

\* the edits stay within MaxEdits when the globals get gpatch and the active
\* body bpatch
CanEdit(gpatch, bpatch) == Edits(mapActiveBody(bpatch), Patch(Display, gpatch)) <= MaxEdits

\* the patch of a setter's field to its edited value
Set(f) == [g \in {f} |-> Edited[g]]

NextDisplay ==
  \/ addBody
  \/ removeActiveBody /\ StaleBounded(pending')
  \/ \E id \in Ids(bodies) \cup {GhostId} : selectBody(id)
  \/ \E patch \in DisplayPatches : CanEdit(<<>>, patch) /\ updateActiveBody(patch)
  \* a call of one of the eight setters
  \/ \E f \in DisplayFields :
       /\ CanEdit(Set(f), Set(f))
       /\ setField(f, Edited[f])
       /\ StaleBounded(pending')

SpecDisplay == Init /\ [][NextDisplay]_vars

\* what a body update with this patch may change: the records whose id is
\* activeBodyId get the patch's fields and keep the others; every other
\* record, the order of the bodies and activeBodyId stay as they are
C21_Local(patch) ==
  /\ activeBodyId' = activeBodyId
  /\ Len(bodies') = Len(bodies)
  /\ \A i \in 1..Len(bodies) :
       /\ bodies'[i].id = bodies[i].id
       /\ bodies[i].id # activeBodyId => bodies'[i] = bodies[i]
       /\ bodies[i].id = activeBodyId =>
            \A f \in DOMAIN bodies[i] :
              bodies'[i][f] = IF f \in DOMAIN patch THEN patch[f] ELSE bodies[i][f]
  /\ (activeBodyId = NULL \/ activeBodyId \notin Ids(bodies)) => bodies' = bodies

\* C21: updateActiveBody(patch) and each per-body setter replace only the
\* record of the body whose id is activeBodyId by a record with the new
\* field(s), leave every other body's record, the order of the bodies and
\* activeBodyId unchanged, and leave bodies as it is when activeBodyId is
\* null or names no body.  (Records are values here: that the replacement is
\* a new object is the spread of lines 187 and 270, which has no counterpart
\* in a value.)
C21_BodyUpdateIsLocal ==
  [][/\ \A patch \in DisplayPatches : updateActiveBody(patch) => C21_Local(patch)
     /\ setHeightScale(Edited.heightScale) => C21_Local([heightScale |-> Edited.heightScale])
     /\ setHeightMode(Edited.heightMode) => C21_Local([heightMode |-> Edited.heightMode])
     /\ setWireframe(Edited.wireframe) => C21_Local([wireframe |-> Edited.wireframe])
     /\ setShading(Edited.shading) => C21_Local([shading |-> Edited.shading])
     /\ setSeaLevel(Edited.seaLevel) => C21_Local([seaLevel |-> Edited.seaLevel])
     /\ setShowContours(Edited.showContours) => C21_Local([showContours |-> Edited.showContours])
     /\ setContourSteps(Edited.contourSteps) => C21_Local([contourSteps |-> Edited.contourSteps])
     /\ setShowSea(Edited.showSea) => C21_Local([showSea |-> Edited.showSea])]_vars

\* setWireframe has acted on the second of two bodies and left the first alone
C21_SecondBodyEdited ==
  /\ Len(bodies) = 2
  /\ activeBodyId = bodies[2].id
  /\ bodies[2].wireframe /\ ~bodies[1].wireframe

(***************************************************************************)
(* The zoom constraint of Scene (App.tsx 931-934, 982), checked under      *)
(* SpecDisplay.                                                            *)
(***************************************************************************)
\* lines 932-933, from the store's global heightScale
minZoomDistance == RAdd(RAdd(RInt(1), R(heightScale, 50)), R(5, 100))

\* the radius of a vertex of body b whose height sample is 1: the largest
\* radius the loop of lines 560-570 gives under the props of lines 1016-1019
OuterRadius(b) ==
  LET p == TerrainProps(b, imageUrl)
  IN  Vertex(RInt(1), p.heightScale, p.seaLevel, p.shading, p.showContours, p.contourSteps).radius

\* C22: in every reachable store state the OrbitControls minimum distance
\* 1 + heightScale/50 + 0.05, computed from the global heightScale, is
\* strictly greater than the largest displaced vertex radius
\* 1 + (body.heightScale * body.radius)/50 of the body at the origin (the
\* central body, which useFrame never moves).
C22_CameraOutsideGlobe ==
  \A i \in 1..Len(bodies) :
    bodies[i].isCentral => RLt(OuterRadius(bodies[i]), minZoomDistance)

\* C23: in every reachable state in which activeBodyId names an existing
\* body, the global heightScale, heightMode, wireframe, shading, seaLevel,
\* showContours, contourSteps and showSea equal the same fields of the
\* active body.
C23_GlobalsMirrorActiveBody ==
  activeBodyId \in Ids(bodies) =>
    \A f \in DisplayFields : Display[f] = BodyOf(bodies, activeBodyId)[f]

(***************************************************************************)
(* The store's heightmap with two bodies (checked under SpecShared): the   *)
(* central body and a second, active body; a file is dropped, the active   *)
(* body's height mode is changed, and the decodes of both bodies settle    *)
(* in any order.                                                           *)
(***************************************************************************)
NextShared ==
  \/ onFile("a") /\ StaleBounded(pending')
  \/ \E patch \in LoadPatches : updateActiveBody(patch) /\ StaleBounded(pending')
  \/ \E q \in pending : DecodeResolve(q)
  \/ \E q \in pending : DecodeReject(q)

SpecShared == InitGeom /\ [][NextShared]_vars

\* C24: the store's single heightmap (the one the exports and aspectY use)
\* always equals the height field of the active body's most recent
\* successful load (the one its TerrainMesh holds), whatever the order in
\* which the bodies' decodes complete.
C24_HeightmapIsActiveBodys ==
  (activeBodyId \in DOMAIN terrain /\ terrain[activeBodyId].heights # NoHeights) =>
    /\ heightmap.data.vals = terrain[activeBodyId].heights.vals
    /\ heightmap.width = terrain[activeBodyId].width
    /\ heightmap.height = terrain[activeBodyId].height

(***************************************************************************)
(* The elapsed-time accumulator (checked under SpecClock): a body is       *)
(* added, the active body's orbit is switched off and on and its curve     *)
(* changed, and frames of one or two time units pass.                      *)
(***************************************************************************)
Deltas == {1, 2}

ClockPatches == {[orbitEnabled |-> FALSE], [orbitEnabled |-> TRUE], [orbitType |-> "ellipse"]}

NextClock ==
  \/ addBody
  \/ \E patch \in ClockPatches : updateActiveBody(patch)
  \/ \E delta \in Deltas : Frame(delta)

SpecClock == Init /\ [][NextClock]_vars

\* C25: a body's accumulator starts at 0 when the body is mounted, grows by
\* delta on every frame, also while the body is central or has
\* orbitEnabled = false, and changes on no other step; the position placed
\* on an orbiting tick (the point appended to the trail) is
\* computeOrbitPosition of the accumulated time and the current body.  So a
\* body whose orbit was disabled for some ticks and re-enabled resumes at the
\* position for the total elapsed time.
C25_ClockAlwaysRuns ==
  [][/\ \A delta \in Deltas :
          Frame(delta) =>
            \A id \in DOMAIN tRef :
              LET b == BodyOf(bodies, id)
              IN  /\ tRef'[id] = tRef[id] + delta
                  /\ (~b.isCentral /\ b.orbitEnabled) =>
                       trailPoints'[id][Len(trailPoints'[id])]
                         = computeOrbitPosition(tRef[id] + delta, b)
     /\ (\A delta \in Deltas : ~Frame(delta)) =>
          \A id \in DOMAIN tRef' : tRef'[id] = IF id \in DOMAIN tRef THEN tRef[id] ELSE 0]_vars

\* a body orbited at time 1, was stopped for two time units and placed again
\* at time 4
C25_ResumedAtTotalTime ==
  \E id \in DOMAIN orbitTicks :
    /\ Len(orbitTicks[id]) = 2
    /\ orbitTicks[id][1].t = 1
    /\ orbitTicks[id][2].t = 4
    /\ tRef[id] = 4

=============================================================================
